---- MODULE Spec2Model ----
(***************************************************************************)
(* A model of script.js, the script shared by the three pages of the music *)
(* mood tool: the Preferences page (index), the Suggestions page and the   *)
(* Profile page.  Text is modelled as a sequence of symbols: one symbol    *)
(* per character, except that a mood word and a media URL are one symbol   *)
(* each.  localStorage holds text, so what is stored is the symbol         *)
(* sequence JSON.stringify produces and what is read goes through          *)
(* JSON.parse.                                                             *)
(***************************************************************************)
EXTENDS Integers, Sequences, FiniteSets, TLC

\* ------------------------------------------------------------------ bounds
\* The clock never passes MaxClock (timestamps are 0..MaxClock).
MaxClock == 1
\* The longest name handed to validateForm in ValidateSpec.
MaxNameLen == 3
\* The longest email handed to validateForm in ValidateSpec.
MaxEmailLen == 5
\* The longest raw text found in storage when a page is opened in LoadSpec.
MaxRawLen == 2

\* ------------------------------------------------------------ text helpers
Space == " "
Quote == "'"
Digits == <<"0", "1", "2", "3", "4", "5", "6", "7", "8", "9">>

\* All sequences over alphabet A of length at most n.
StringsUpTo(A, n) == UNION {[1..k -> A] : k \in 0..n}

\* F(x), with x evaluated once however often F uses it.
With(x, F(_)) == CHOOSE y \in {F(v) : v \in {x}} : TRUE

RECURSIVE Concat(_)
\* Concatenation of a sequence of sequences.
Concat(ss) == IF ss = <<>> THEN <<>> ELSE Head(ss) \o Concat(Tail(ss))

RECURSIVE TrimStart(_)
TrimStart(s) ==
  IF s # <<>> /\ Head(s) = Space THEN TrimStart(Tail(s)) ELSE s

RECURSIVE TrimEnd(_)
TrimEnd(s) ==
  IF s # <<>> /\ s[Len(s)] = Space THEN TrimEnd(SubSeq(s, 1, Len(s) - 1)) ELSE s

\* String.prototype.trim
Trim(s) == TrimEnd(TrimStart(s))

RECURSIVE NumToText(_)
\* Number -> decimal digits, as JSON.stringify and String() write a number.
NumToText(n) ==
  IF n < 10 THEN <<Digits[n + 1]>>
  ELSE NumToText(n \div 10) \o <<Digits[(n % 10) + 1]>>

IsDigit(c) == c \in {"0", "1", "2", "3", "4", "5", "6", "7", "8", "9"}
DigitValue(c) == (CHOOSE d \in 1..10 : Digits[d] = c) - 1

\* ------------------------------------------------------------------- JSON
\* A JavaScript value: [k |-> kind, v |-> payload], the payload a sequence.
\*   null        [k |-> "null", v |-> <<>>]
\*   undefined   [k |-> "undefined", v |-> <<>>]
\*   number n    [k |-> "num", v |-> <<n>>]
\*   string s    [k |-> "str", v |-> s]
\*   array       [k |-> "arr", v |-> <<items>>]
\*   object      [k |-> "obj", v |-> <<field values, in key order>>]
\* An object's keys are fixed by what wrote it, so a field is its position.
Null == [k |-> "null", v |-> <<>>]
Undefined == [k |-> "undefined", v |-> <<>>]
Num(n) == [k |-> "num", v |-> <<n>>]
Str(s) == [k |-> "str", v |-> s]
Arr(items) == [k |-> "arr", v |-> items]
Obj(fields) == [k |-> "obj", v |-> fields]

\* obj.field for the field at position i; undefined when the object lacks it
\* or the value is no object.
Field(o, i) == IF o.k = "obj" /\ i <= Len(o.v) THEN o.v[i] ELSE Undefined

\* JavaScript truthiness of a value.
Truthy(x) ==
  CASE x.k = "null" -> FALSE
    [] x.k = "undefined" -> FALSE
    [] x.k = "num" -> x.v[1] # 0
    [] x.k = "str" -> x.v # <<>>
    [] OTHER -> TRUE

RECURSIVE JSONstringify(_)
RECURSIVE StringifyItems(_)
StringifyItems(items) ==
  IF items = <<>> THEN <<>>
  ELSE IF Len(items) = 1 THEN JSONstringify(items[1])
  ELSE JSONstringify(items[1]) \o <<",">> \o StringifyItems(Tail(items))

\* JSON.stringify: the text of a value.
JSONstringify(x) ==
  CASE x.k = "null" -> <<"n", "u", "l", "l">>
    [] x.k = "num" -> NumToText(x.v[1])
    [] x.k = "str" -> <<Quote>> \o x.v \o <<Quote>>
    [] x.k = "arr" -> <<"[">> \o StringifyItems(x.v) \o <<"]">>
    [] x.k = "obj" -> <<"{">> \o StringifyItems(x.v) \o <<"}">>

\* The result of a parse step: ok, the value read, and the next position.
ParseFail == [ok |-> FALSE, val |-> Null, next |-> 0]
ParseOk(x, i) == [ok |-> TRUE, val |-> x, next |-> i]

RECURSIVE ParseDigits(_, _, _)
\* Reads digits from position i on; acc is the number read so far.
ParseDigits(t, i, acc) ==
  IF i <= Len(t) /\ IsDigit(t[i])
  THEN ParseDigits(t, i + 1, acc * 10 + DigitValue(t[i]))
  ELSE ParseOk(Num(acc), i)

RECURSIVE ParseChars(_, _, _)
\* Reads the characters of a string up to the closing quote.
ParseChars(t, i, acc) ==
  IF i > Len(t) THEN ParseFail
  ELSE IF t[i] = Quote THEN ParseOk(Str(acc), i + 1)
  ELSE ParseChars(t, i + 1, Append(acc, t[i]))

RECURSIVE ParseValue(_, _)
RECURSIVE ParseItems(_, _, _, _)
\* Reads "item , item ... close" from position i on (at least one item).
ParseItems(t, i, acc, close) ==
  With(ParseValue(t, i), LAMBDA r :
    IF ~r.ok THEN ParseFail
    ELSE IF r.next > Len(t) THEN ParseFail
    ELSE IF t[r.next] = close THEN ParseOk(Append(acc, r.val), r.next + 1)
    ELSE IF t[r.next] = "," THEN ParseItems(t, r.next + 1, Append(acc, r.val), close)
    ELSE ParseFail)

\* Reads one JSON value from position i on.
ParseValue(t, i) ==
  IF i > Len(t) THEN ParseFail
  ELSE IF t[i] = "n"
    THEN IF i + 3 <= Len(t) /\ SubSeq(t, i, i + 3) = <<"n", "u", "l", "l">>
         THEN ParseOk(Null, i + 4) ELSE ParseFail
  ELSE IF IsDigit(t[i]) THEN ParseDigits(t, i, 0)
  ELSE IF t[i] = Quote THEN ParseChars(t, i + 1, <<>>)
  ELSE IF t[i] = "[" \/ t[i] = "{"
    THEN LET close == IF t[i] = "[" THEN "]" ELSE "}"
         IN With(IF i + 1 <= Len(t) /\ t[i + 1] = close
                 THEN ParseOk(<<>>, i + 2)
                 ELSE ParseItems(t, i + 1, <<>>, close),
                 LAMBDA r :
                   IF ~r.ok THEN ParseFail
                   ELSE ParseOk(IF t[i] = "[" THEN Arr(r.val) ELSE Obj(r.val), r.next))
  ELSE ParseFail

\* JSON.parse: [threw |-> TRUE] for a SyntaxError, else the value.
JSONparse(t) ==
  With(ParseValue(t, 1), LAMBDA r :
    IF r.ok /\ r.next = Len(t) + 1
    THEN [threw |-> FALSE, val |-> r.val]
    ELSE [threw |-> TRUE, val |-> Null])

\* ------------------------------------------------------------- the catalog
\* A song is the object {id, mood, url}; title, artist and length are display
\* text fixed by the id and are left out of the object.
SONGS ==
  << Obj(<<Num(1), Str(<<"chill">>), Str(<<"SoundHelix-Song-1.mp3">>)>>),
     Obj(<<Num(2), Str(<<"workout">>), Str(<<"SoundHelix-Song-2.mp3">>)>>),
     Obj(<<Num(3), Str(<<"party">>), Str(<<"SoundHelix-Song-3.mp3">>)>>),
     Obj(<<Num(4), Str(<<"focus">>), Str(<<"SoundHelix-Song-4.mp3">>)>>),
     Obj(<<Num(5), Str(<<"chill">>), Str(<<"SoundHelix-Song-5.mp3">>)>>) >>

\* The fields of a song, and of a saved song ({...song, savedAt}).
SongId(s) == Field(s, 1)
SongMood(s) == Field(s, 2)
SongUrl(s) == Field(s, 3)
SongSavedAt(s) == Field(s, 4)

\* The fields of the user record {name, email, mood, savedAt}.
UserName(u) == Field(u, 1)
UserEmail(u) == Field(u, 2)
UserMood(u) == Field(u, 3)
UserSavedAt(u) == Field(u, 4)

\* The options of the mood <select> of the Preferences page.
MoodOptions == {<<"chill">>, <<"workout">>, <<"party">>, <<"focus">>}

\* Array.prototype.findIndex: the 0-based index of the first match, or -1.
FindIndex(seq, P(_)) ==
  IF \E i \in 1..Len(seq) : P(seq[i])
  THEN (CHOOSE i \in 1..Len(seq) : P(seq[i]) /\ \A j \in 1..(i - 1) : ~P(seq[j])) - 1
  ELSE -1

\* String(x) / template-literal conversion of a value to text.
ToText(x) ==
  CASE x.k = "str" -> x.v
    [] x.k = "num" -> NumToText(x.v[1])
    [] x.k = "undefined" -> <<"undefined">>
    [] x.k = "null" -> <<"null">>
    [] x.k = "arr" -> <<>>
    [] OTHER -> <<"[object Object]">>

\* x || "" : x when truthy, else the empty string.
OrEmpty(x) == IF Truthy(x) THEN x ELSE Str(<<>>)

\* new Date().toISOString() at clock value t.
ISOString(t) == NumToText(t)

\* ------------------------------------------------------------ localStorage
\* One key of localStorage: absent, or present with its text.
NoItem == [has |-> FALSE, text |-> <<>>]
Item(t) == [has |-> TRUE, text |-> t]

\* saveToStorage(key, value): the item the key holds afterwards.
saveToStorage(value) == Item(JSONstringify(value))

\* loadFromStorage(key, fallback) on the item the key holds:
\* raw ? JSON.parse(raw) : fallback, where getItem gives null for no item.
loadFromStorage(item, fallback) ==
  IF ~item.has \/ item.text = <<>>
  THEN [threw |-> FALSE, val |-> fallback]
  ELSE JSONparse(item.text)

\* --------------------------------------------------------------- validation
NameMessage == "Name must be at least 2 characters."
EmailMessage == "Please enter a valid email."
MoodMessage == "Please pick a mood/type."

\* One step of the matcher for /^\S+@\S+\.\S+$/ on character c: the set of
\* positions in the pattern reachable from the set S.
\*   0 start, 1 in the first \S+, 2 after '@', 3 in the second \S+,
\*   4 after '.', 5 in the third \S+ (accepting).
RegexStep(S, c) ==
  IF c = Space THEN {}
  ELSE  {1 : q \in S \cap {0, 1}}
   \cup {2 : q \in {r \in S \cap {1} : c = "@"}}
   \cup {3 : q \in S \cap {2, 3}}
   \cup {4 : q \in {r \in S \cap {3} : c = "."}}
   \cup {5 : q \in S \cap {4, 5}}

RECURSIVE RegexRun(_, _)
RegexRun(S, s) == IF s = <<>> THEN S ELSE RegexRun(RegexStep(S, Head(s)), Tail(s))

\* /^\S+@\S+\.\S+$/.test(email)
EmailRegexTest(email) == 5 \in RegexRun({0}, email)

\* A validateForm that looks at the email before the name.
validateFormEmailFirst(name, email, mood) ==
  IF email = <<>> \/ ~EmailRegexTest(email) THEN [ok |-> FALSE, message |-> EmailMessage]
  ELSE IF name = <<>> \/ Len(Trim(name)) < 2 THEN [ok |-> FALSE, message |-> NameMessage]
  ELSE IF mood = <<>> THEN [ok |-> FALSE, message |-> MoodMessage]
  ELSE [ok |-> TRUE, message |-> ""]

\* validateForm(name, email, mood)
validateForm(name, email, mood) ==
  IF name = <<>> \/ Len(Trim(name)) < 2 THEN [ok |-> FALSE, message |-> NameMessage]
  ELSE IF email = <<>> \/ ~EmailRegexTest(email) THEN [ok |-> FALSE, message |-> EmailMessage]
  ELSE IF mood = <<>> THEN [ok |-> FALSE, message |-> MoodMessage]
  ELSE [ok |-> TRUE, message |-> ""]


\* -------------------------------------------------------------------- state
VARIABLES
  storeUser,     \* localStorage item under "mp_user"
  storeSaved,    \* localStorage item under "mp_saved_songs"
  clock,         \* the time new Date() reads
  page,          \* the page loaded in the tab: "index", "suggestions", "profile", "none"
  playId,        \* the ?play= query parameter of the loaded page (<<>>: none)
  initPc,        \* the page script: "done", "await" (at await fetchTips()), "threw"
  timer,         \* the setTimeout(attemptPlay, 600): "none" or "pending"
  nameInput,     \* index: #name value
  emailInput,    \* index: #email value
  moodSelect,    \* index: #mood value
  notice,        \* index: #notice text (<<>>: hidden)
  currentIndex,  \* suggestions: currentIndex
  chosen,        \* suggestions: the songs rendered in #songs
  greeting,      \* suggestions: #greeting text
  tips,          \* suggestions: #tips content
  audioSrc,      \* suggestions: audio.src (<<>>: empty)
  audioPaused,   \* suggestions: audio.paused
  audioEnded,    \* suggestions: audio.ended
  nowText,       \* suggestions: #now, [song, artist]: which song, with the artist or not
  rendered,      \* profile: the saved songs rendered in #savedList
  event,         \* the last event handled: [type, arg (a song id, or 0), out]
  call,          \* a direct call of a function: its arguments
  ret            \* a direct call of a function: its result

storeVars == <<storeUser, storeSaved>>
navVars == <<page, playId, initPc, timer>>
indexVars == <<nameInput, emailInput, moodSelect, notice>>
suggVars == <<currentIndex, chosen, greeting, tips>>
audioVars == <<audioSrc, audioPaused, audioEnded, nowText>>
callVars == <<call, ret>>
vars == <<storeUser, storeSaved, clock, page, playId, initPc, timer, nameInput,
          emailInput, moodSelect, notice, currentIndex, chosen, greeting, tips,
          audioSrc, audioPaused, audioEnded, nowText, rendered, event, call, ret>>

NoText == [song |-> 0, artist |-> FALSE]
NoTips == [state |-> "empty", ids |-> <<>>]
NoCall == [fn |-> "none"]
Event(type, arg, out) == [type |-> type, arg |-> arg, out |-> out]

\* ---------------------------------------------------------------- page load
\* The index branch of the DOMContentLoaded handler: the fields and the notice
\* after the pre-fill from the stored user.
IndexDom(su) ==
  With(loadFromStorage(su, Null), LAMBDA r :
     LET stored == r.val IN
     IF r.threw
     THEN [pc |-> "threw", name |-> <<>>, email |-> <<>>, mood |-> <<>>, notice |-> <<>>]
     ELSE IF Truthy(stored)
     THEN [pc |-> "done",
           name |-> ToText(OrEmpty(UserName(stored))),
           email |-> ToText(OrEmpty(UserEmail(stored))),
           mood |-> LET m == ToText(OrEmpty(UserMood(stored)))
                    IN IF m \in MoodOptions THEN m ELSE <<>>,
           notice |-> Concat(<< <<"Welcome back, ">>, ToText(UserName(stored)),
                                <<". Your mood is saved as \"">>, ToText(UserMood(stored)),
                                <<"\". Go to Suggestions.">> >>)]
     ELSE [pc |-> "done", name |-> <<>>, email |-> <<>>, mood |-> <<>>, notice |-> <<>>])

\* const chosen = user && user.mood ? SONGS.filter(s => s.mood === user.mood) : SONGS.slice()
Chosen(user) ==
  IF Truthy(user) /\ Truthy(UserMood(user))
  THEN SelectSeq(SONGS, LAMBDA s : SongMood(s) = UserMood(user))
  ELSE SONGS

\* initSuggestionsPage up to await fetchTips(): the greeting and the song list.
SuggDom(su) ==
  With(loadFromStorage(su, Null), LAMBDA r :
     LET user == r.val IN
     IF r.threw
     THEN [pc |-> "threw", greeting |-> <<>>, chosen |-> <<>>]
     ELSE [pc |-> "await",
           greeting |-> IF Truthy(user)
                        THEN Concat(<< <<"Hey ">>, ToText(UserName(user)),
                                       <<" - mood: ">>, ToText(UserMood(user)) >>)
                        ELSE <<"Hi - set your preferences on Home">>,
           chosen |-> Chosen(user)])

\* renderSavedSongs: what #savedList shows (the closure's `saved`).
renderSavedSongs(ss) ==
  With(loadFromStorage(ss, Arr(<<>>)), LAMBDA r :
     IF r.threw \/ r.val.k # "arr"
     THEN [pc |-> "threw", saved |-> <<>>]
     ELSE [pc |-> "done", saved |-> r.val.v])

\* A freshly loaded page: what the DOMContentLoaded handler leaves on page p
\* opened with ?play=q, with su and ss in storage, and checkAutoPlayOnLoad
\* arming its timer when the query names a song.
PageState(p, q, su, ss) ==
  LET blank == [page |-> p,
                playId |-> q,
                timer |-> IF q # <<>> THEN "pending" ELSE "none",
                initPc |-> "done",
                nameInput |-> <<>>,
                emailInput |-> <<>>,
                moodSelect |-> <<>>,
                notice |-> <<>>,
                currentIndex |-> -1,
                chosen |-> <<>>,
                greeting |-> <<>>,
                tips |-> NoTips,
                audioSrc |-> <<>>,
                audioPaused |-> TRUE,
                audioEnded |-> FALSE,
                nowText |-> NoText,
                rendered |-> <<>>]
  IN CASE p = "index" ->
            With(IndexDom(su), LAMBDA ix :
              [blank EXCEPT !.initPc = ix.pc, !.nameInput = ix.name, !.emailInput = ix.email,
                            !.moodSelect = ix.mood, !.notice = ix.notice])
       [] p = "suggestions" ->
            With(SuggDom(su), LAMBDA sg :
              [blank EXCEPT !.initPc = sg.pc, !.chosen = sg.chosen, !.greeting = sg.greeting])
       [] p = "profile" ->
            With(renderSavedSongs(ss), LAMBDA pf :
              [blank EXCEPT !.initPc = pf.pc, !.rendered = pf.saved])
       [] OTHER -> blank

\* The tab navigates to page p with query q and the page's script runs.
DomContentLoaded(p, q, su, ss) ==
  \E d \in {PageState(p, q, su, ss)} :
     /\ page' = d.page
     /\ playId' = d.playId
     /\ timer' = d.timer
     /\ initPc' = d.initPc
     /\ nameInput' = d.nameInput
     /\ emailInput' = d.emailInput
     /\ moodSelect' = d.moodSelect
     /\ notice' = d.notice
     /\ currentIndex' = d.currentIndex
     /\ chosen' = d.chosen
     /\ greeting' = d.greeting
     /\ tips' = d.tips
     /\ audioSrc' = d.audioSrc
     /\ audioPaused' = d.audioPaused
     /\ audioEnded' = d.audioEnded
     /\ nowText' = d.nowText
     /\ rendered' = d.rendered

\* The same, as the state a behaviour starts in.
InitPage(p, q, su, ss) ==
  \E d \in {PageState(p, q, su, ss)} :
     /\ page = d.page
     /\ playId = d.playId
     /\ timer = d.timer
     /\ initPc = d.initPc
     /\ nameInput = d.nameInput
     /\ emailInput = d.emailInput
     /\ moodSelect = d.moodSelect
     /\ notice = d.notice
     /\ currentIndex = d.currentIndex
     /\ chosen = d.chosen
     /\ greeting = d.greeting
     /\ tips = d.tips
     /\ audioSrc = d.audioSrc
     /\ audioPaused = d.audioPaused
     /\ audioEnded = d.audioEnded
     /\ nowText = d.nowText
     /\ rendered = d.rendered

\* The user follows a link to one of the three pages.
OpenIndex ==
  /\ DomContentLoaded("index", <<>>, storeUser, storeSaved)
  /\ event' = Event("load", 0, "index")
  /\ UNCHANGED <<storeVars, clock, callVars>>

OpenSuggestions ==
  /\ DomContentLoaded("suggestions", <<>>, storeUser, storeSaved)
  /\ event' = Event("load", 0, "suggestions")
  /\ UNCHANGED <<storeVars, clock, callVars>>

OpenProfile ==
  /\ DomContentLoaded("profile", <<>>, storeUser, storeSaved)
  /\ event' = Event("load", 0, "profile")
  /\ UNCHANGED <<storeVars, clock, callVars>>

\* Time passes.
Tick ==
  /\ clock < MaxClock
  /\ clock' = clock + 1
  /\ UNCHANGED <<storeVars, navVars, indexVars, suggVars, audioVars, rendered, event, callVars>>

\* ------------------------------------------------------------ index page
\* What the user can type into the name and email fields.
NameInputs == {<<>>, <<"A">>, <<" ", "A", " ">>, <<"A", "l">>, <<" ", "A", "l", " ">>, <<"B", "o">>}
EmailInputs == {<<>>, <<"a", "@", "b", ".", "c">>, <<" ", "a", "@", "b", ".", "c", " ">>,
                <<"a", "@", "b">>, <<"a", " ", "@", "b", ".", "c">>}

\* The user edits a field of the form.
TypeName(n) ==
  /\ page = "index"
  /\ nameInput' = n
  /\ event' = Event("input", 0, "name")
  /\ UNCHANGED <<storeVars, clock, navVars, emailInput, moodSelect, notice, suggVars,
                 audioVars, rendered, callVars>>

TypeEmail(e) ==
  /\ page = "index"
  /\ emailInput' = e
  /\ event' = Event("input", 0, "email")
  /\ UNCHANGED <<storeVars, clock, navVars, nameInput, moodSelect, notice, suggVars,
                 audioVars, rendered, callVars>>

SelectMood(m) ==
  /\ page = "index"
  /\ moodSelect' = m
  /\ event' = Event("input", 0, "mood")
  /\ UNCHANGED <<storeVars, clock, navVars, nameInput, emailInput, notice, suggVars,
                 audioVars, rendered, callVars>>

\* A submit handler that stores the record before it validates.
SubmitSavesFirst ==
  /\ page = "index"
  /\ initPc = "done"
  /\ LET name == Trim(nameInput)
         email == Trim(emailInput)
         mood == moodSelect
         check == validateForm(name, email, mood)
         user == Obj(<<Str(name), Str(email), Str(mood), Str(ISOString(clock))>>)
     IN /\ storeUser' = saveToStorage(user)
        /\ UNCHANGED storeSaved
        /\ IF ~check.ok
           THEN /\ event' = Event("submit", 0, check.message)
                /\ UNCHANGED <<navVars, indexVars, suggVars, audioVars, rendered>>
           ELSE /\ DomContentLoaded("suggestions", <<>>, storeUser', storeSaved)
                /\ event' = Event("submit", 0, "ok")
  /\ UNCHANGED <<clock, callVars>>

\* The submit handler of #prefForm; on success it ends by navigating to the
\* Suggestions page, which loads with the record just stored.
Submit ==
  /\ page = "index"
  /\ initPc = "done"
  /\ LET name == Trim(nameInput)
         email == Trim(emailInput)
         mood == moodSelect
         check == validateForm(name, email, mood)
         user == Obj(<<Str(name), Str(email), Str(mood), Str(ISOString(clock))>>)
     IN IF ~check.ok
        THEN /\ event' = Event("submit", 0, check.message)
             /\ UNCHANGED <<storeVars, navVars, indexVars, suggVars, audioVars, rendered>>
        ELSE /\ storeUser' = saveToStorage(user)
             /\ UNCHANGED storeSaved
             /\ DomContentLoaded("suggestions", <<>>, storeUser', storeSaved)
             /\ event' = Event("submit", 0, "ok")
  /\ UNCHANGED <<clock, callVars>>

\* ------------------------------------------------------- suggestions page
\* The number of a song's id (0 when the value has no numeric id).
IdOf(s) == IF SongId(s).k = "num" THEN SongId(s).v[1] ELSE 0

\* playSongAtIndex(idx): sets the source and the Now Playing text and starts
\* playback.  Called from handlers of user gestures and of `ended`, where the
\* browser lets play() start.
playSongAtIndex(idx) ==
  IF idx < 0 \/ idx >= Len(SONGS)
  THEN UNCHANGED audioVars
  ELSE /\ audioSrc' = ToText(SongUrl(SONGS[idx + 1]))
       /\ nowText' = [song |-> IdOf(SONGS[idx + 1]), artist |-> TRUE]
       /\ audioPaused' = FALSE
       /\ audioEnded' = FALSE

\* The index changeTrack(dir) moves to.
NextIndex(cur, dir) ==
  IF cur = -1 THEN 0 ELSE (cur + dir + Len(SONGS)) % Len(SONGS)

\* changeTrack(dir)
changeTrack(dir) ==
  /\ currentIndex' = NextIndex(currentIndex, dir)
  /\ playSongAtIndex(currentIndex')

\* The index the Play button of a listed song selects.
PlayIndex(song) == FindIndex(SONGS, LAMBDA x : SongId(x) = SongId(song))

\* Click on the Play button of the list entry of `song`.
PlayClick(song) ==
  /\ page = "suggestions"
  /\ \E i \in 1..Len(chosen) : chosen[i] = song
  /\ currentIndex' = PlayIndex(song)
  /\ playSongAtIndex(currentIndex')
  /\ event' = Event("play", IdOf(song), "ok")
  /\ UNCHANGED <<storeVars, clock, navVars, indexVars, chosen, greeting, tips, rendered, callVars>>

PrevClick ==
  /\ page = "suggestions"
  /\ changeTrack(-1)
  /\ event' = Event("prev", 0, "ok")
  /\ UNCHANGED <<storeVars, clock, navVars, indexVars, chosen, greeting, tips, rendered, callVars>>

NextClick ==
  /\ page = "suggestions"
  /\ changeTrack(1)
  /\ event' = Event("next", 0, "ok")
  /\ UNCHANGED <<storeVars, clock, navVars, indexVars, chosen, greeting, tips, rendered, callVars>>

\* Click on #playPause: if(audio.src && !audio.paused) audio.pause(); else audio.play();
\* play() clears `paused` (and restarts an ended track) whether or not a
\* source is set.
PlayPauseClick ==
  /\ page = "suggestions"
  /\ IF audioSrc # <<>> /\ ~audioPaused
     THEN /\ audioPaused' = TRUE
          /\ UNCHANGED audioEnded
     ELSE /\ audioPaused' = FALSE
          /\ audioEnded' = FALSE
  /\ event' = Event("playPause", 0, "ok")
  /\ UNCHANGED <<storeVars, clock, navVars, indexVars, suggVars, audioSrc, nowText,
                 rendered, callVars>>

\* The playing track reaches its end: the element pauses and fires `ended`.
\* The `ended` listener is added by the last statement of
\* initSuggestionsPage, after await fetchTips().
Ended ==
  /\ page = "suggestions"
  /\ audioSrc # <<>>
  /\ ~audioPaused
  /\ ~audioEnded
  /\ IF initPc = "done"
     THEN changeTrack(1)
     ELSE /\ audioEnded' = TRUE
          /\ audioPaused' = TRUE
          /\ UNCHANGED <<currentIndex, audioSrc, nowText>>
  /\ event' = Event("ended", 0, IF initPc = "done" THEN "ok" ELSE "no listener")
  /\ UNCHANGED <<storeVars, clock, navVars, indexVars, chosen, greeting, tips, rendered, callVars>>

\* attemptPlay, run by the timer checkAutoPlayOnLoad set: looks the id up in
\* SONGS and, if the page has the audio element, sets its source and the Now
\* Playing text and calls play(), which the browser may refuse (no gesture).
AttemptPlay(allowed) ==
  /\ timer = "pending"
  /\ timer' = "none"
  /\ LET idx == FindIndex(SONGS, LAMBDA x : ToText(SongId(x)) = playId)
     IN IF idx # -1 /\ page = "suggestions"
        THEN /\ audioSrc' = ToText(SongUrl(SONGS[idx + 1]))
             /\ nowText' = [song |-> IdOf(SONGS[idx + 1]), artist |-> FALSE]
             /\ audioPaused' = ~allowed
             /\ audioEnded' = FALSE
        ELSE UNCHANGED audioVars
  /\ event' = Event("timer", 0, IF allowed THEN "ok" ELSE "NotAllowedError")
  /\ UNCHANGED <<storeVars, clock, page, playId, initPc, indexVars, suggVars, rendered, callVars>>

\* What the tips endpoint can answer: a network error, a non-OK status, a
\* body that is no JSON, or a list of posts (their ids).
Responses ==
  { [kind |-> "neterr", posts |-> <<>>], [kind |-> "notok", posts |-> <<>>],
    [kind |-> "badjson", posts |-> <<>>],
    [kind |-> "ok", posts |-> <<1, 2, 3, 4, 5, 6, 7, 8>>] }

\* fetchTips() for an answer: it throws, or gives the posts with an even id.
fetchTips(resp) ==
  IF resp.kind # "ok"
  THEN [threw |-> TRUE, tips |-> <<>>]
  ELSE [threw |-> FALSE, tips |-> SelectSeq(resp.posts, LAMBDA id : id % 2 = 0)]

\* tips.slice(0, 3)
FirstThree(seq) == SubSeq(seq, 1, IF Len(seq) < 3 THEN Len(seq) ELSE 3)

\* The fetch settles: initSuggestionsPage resumes after the await, shows the
\* tips or the fallback, and runs to its end (which initialises saveSong and
\* adds the `ended` listener).
FetchSettle(resp) ==
  /\ page = "suggestions"
  /\ initPc = "await"
  /\ \E r \in {fetchTips(resp)} :
       tips' = IF r.threw
                THEN [state |-> "Could not load tips.", ids |-> <<>>]
                ELSE [state |-> "shown", ids |-> FirstThree(r.tips)]
  /\ initPc' = "done"
  /\ event' = Event("fetch", 0, "settled")
  /\ UNCHANGED <<storeVars, clock, page, playId, timer, indexVars, currentIndex, chosen,
                 greeting, audioVars, rendered, callVars>>

\* A saveSong that appends without looking for the id in the list.
saveSongAlwaysAppends(ss, song, t) ==
  With(loadFromStorage(ss, Arr(<<>>)), LAMBDA r :
     IF r.threw THEN [out |-> "SyntaxError", item |-> ss]
     ELSE IF r.val.k # "arr" THEN [out |-> "TypeError", item |-> ss]
     ELSE [out |-> "saved",
           item |-> saveToStorage(Arr(Append(r.val.v, Obj(song.v \o <<Str(ISOString(t))>>))))])

\* saveSong(song) at time t on the stored item ss: how it ends (the error it
\* throws, "duplicate" for the early return, "saved") and the item stored
\* afterwards.
saveSong(ss, song, t) ==
  With(loadFromStorage(ss, Arr(<<>>)), LAMBDA r :
     LET saved == r.val IN
     IF r.threw THEN [out |-> "SyntaxError", item |-> ss]
     ELSE IF saved.k # "arr" THEN [out |-> "TypeError", item |-> ss]
     ELSE IF \E i \in 1..Len(saved.v) : SongId(saved.v[i]) = SongId(song)
       THEN [out |-> "duplicate", item |-> ss]
     ELSE [out |-> "saved",
           item |-> saveToStorage(Arr(Append(saved.v, Obj(song.v \o <<Str(ISOString(t))>>))))])

\* Click on the Save button of the list entry of `song`.  saveSong is a const
\* declared after await fetchTips(): until the function has resumed and run
\* past the declaration, reading it throws a ReferenceError.
SaveClick(song) ==
  /\ page = "suggestions"
  /\ \E i \in 1..Len(chosen) : chosen[i] = song
  /\ IF initPc # "done"
     THEN /\ event' = Event("save", IdOf(song), "ReferenceError")
          /\ UNCHANGED storeSaved
     ELSE \E r \in {saveSong(storeSaved, song, clock)} :
             /\ storeSaved' = r.item
             /\ event' = Event("save", IdOf(song), r.out)
  /\ UNCHANGED <<storeUser, clock, navVars, indexVars, suggVars, audioVars, rendered, callVars>>

\* ------------------------------------------------------------ profile page
\* A filter that drops the entry and everything listed after it.
RemainingBefore(saved, s) ==
  SubSeq(saved, 1, FindIndex(saved, LAMBDA x : SongId(x) = SongId(s)))

\* saved.filter(x => x.id !== s.id)
Remaining(saved, s) == SelectSeq(saved, LAMBDA x : SongId(x) # SongId(s))

\* Click on the Remove button of the entry of saved song s: filters the
\* list the entry was rendered from, stores it and renders again.
RemoveClick(s) ==
  /\ page = "profile"
  /\ \E i \in 1..Len(rendered) : rendered[i] = s
  /\ storeSaved' = saveToStorage(Arr(Remaining(rendered, s)))
  /\ rendered' = renderSavedSongs(storeSaved').saved
  /\ event' = Event("remove", IdOf(s), "ok")
  /\ UNCHANGED <<storeUser, clock, navVars, indexVars, suggVars, audioVars, callVars>>

\* Click on #clearSaved: removes the key and renders again.
ClearClick ==
  /\ page = "profile"
  /\ initPc = "done"
  /\ storeSaved' = NoItem
  /\ rendered' = renderSavedSongs(storeSaved').saved
  /\ event' = Event("clear", 0, "ok")
  /\ UNCHANGED <<storeUser, clock, navVars, indexVars, suggVars, audioVars, callVars>>

\* Click on the Play button of the entry of saved song s: navigates to
\* suggestions.html?play=<id>.
PlaySavedClick(s) ==
  /\ page = "profile"
  /\ \E i \in 1..Len(rendered) : rendered[i] = s
  /\ DomContentLoaded("suggestions", ToText(SongId(s)), storeUser, storeSaved)
  /\ event' = Event("playSaved", IdOf(s), "ok")
  /\ UNCHANGED <<storeVars, clock, callVars>>

\* ------------------------------------------------------------ direct calls
NoRet == [fn |-> "none", threw |-> FALSE, val |-> Null]

\* validateForm called with the arguments in `call`.
CallValidate ==
  /\ call.fn = "validateForm"
  /\ ret = NoRet
  /\ ret' = [fn |-> "validateForm", threw |-> FALSE,
             val |-> validateForm(call.name, call.email, call.mood)]
  /\ event' = Event("call", 0, "validateForm")
  /\ UNCHANGED <<storeVars, clock, navVars, indexVars, suggVars, audioVars, rendered, call>>

\* The item a key of localStorage holds, and the fallback its readers pass.
ItemOf(key) == IF key = "mp_user" THEN storeUser ELSE storeSaved
FallbackOf(key) == IF key = "mp_user" THEN Null ELSE Arr(<<>>)

\* loadFromStorage called on the key in `call`, with that key's fallback.
CallLoad ==
  /\ call.fn = "loadFromStorage"
  /\ ret = NoRet
  /\ \E r \in {loadFromStorage(ItemOf(call.key), FallbackOf(call.key))} :
       ret' = [fn |-> "loadFromStorage", threw |-> r.threw, val |-> r.val]
  /\ event' = Event("call", 0, "loadFromStorage")
  /\ UNCHANGED <<storeVars, clock, navVars, indexVars, suggVars, audioVars, rendered, call>>

\* ---------------------------------------------------------- specifications
\* A stored user record with the given mood, and a saved copy of a song.
SampleUser(mood) ==
  Obj(<<Str(<<"A", "l">>), Str(<<"a", "@", "b", ".", "c">>), Str(mood), Str(ISOString(0))>>)
SavedCopy(song, t) == Obj(song.v \o <<Str(ISOString(t))>>)

\* The storage side of the tool: the Suggestions page's Save, the Profile
\* page's Remove, Clear and Play, navigation between the two, and time.
InitStore ==
  /\ storeUser \in {NoItem, saveToStorage(SampleUser(<<"chill">>))}
  /\ storeSaved = NoItem
  /\ clock = 0
  /\ InitPage("suggestions", <<>>, storeUser, storeSaved)
  /\ event = Event("load", 0, "suggestions")
  /\ call = [fn |-> "none"]
  /\ ret = NoRet

NextStore ==
  \/ OpenSuggestions
  \/ OpenProfile
  \/ Tick
  \/ \E resp \in Responses : FetchSettle(resp)
  \/ \E i \in 1..Len(chosen) : SaveClick(chosen[i])
  \/ \E i \in 1..Len(rendered) : RemoveClick(rendered[i])
  \/ ClearClick

SpecStore == InitStore /\ [][NextStore]_vars

\* The tool for a user who has stored a mood: the Suggestions page with its
\* player and Save buttons, and the Profile page with Remove, Clear and the
\* Play link that opens suggestions.html?play=<id>.
InitPlayer ==
  /\ storeUser \in {saveToStorage(SampleUser(m)) : m \in MoodOptions}
  /\ storeSaved = NoItem
  /\ clock = 0
  /\ InitPage("suggestions", <<>>, storeUser, storeSaved)
  /\ event = Event("load", 0, "suggestions")
  /\ call = [fn |-> "none"]
  /\ ret = NoRet

NextPlayer ==
  \/ \E i \in 1..Len(chosen) : PlayClick(chosen[i])
  \/ PrevClick
  \/ NextClick
  \/ PlayPauseClick
  \/ Ended
  \/ \E allowed \in BOOLEAN : AttemptPlay(allowed)
  \/ \E resp \in Responses : FetchSettle(resp)
  \/ \E i \in 1..Len(chosen) : SaveClick(chosen[i])
  \/ OpenSuggestions
  \/ OpenProfile
  \/ \E i \in 1..Len(rendered) : RemoveClick(rendered[i])
  \/ ClearClick
  \/ \E i \in 1..Len(rendered) : PlaySavedClick(rendered[i])

SpecPlayer == InitPlayer /\ [][NextPlayer]_vars

\* The Preferences page: typing, submitting, coming back to the page.
InitPrefs ==
  /\ storeUser = NoItem
  /\ storeSaved \in {NoItem, saveToStorage(Arr(<<SavedCopy(SONGS[2], 0), SavedCopy(SONGS[5], 0)>>))}
  /\ clock = 0
  /\ InitPage("index", <<>>, storeUser, storeSaved)
  /\ event = Event("load", 0, "index")
  /\ call = [fn |-> "none"]
  /\ ret = NoRet

NextPrefs ==
  \/ OpenIndex
  \/ Tick
  \/ \E n \in NameInputs : TypeName(n)
  \/ \E e \in EmailInputs : TypeEmail(e)
  \/ \E m \in MoodOptions \cup {<<>>} : SelectMood(m)
  \/ Submit

SpecPrefs == InitPrefs /\ [][NextPrefs]_vars

\* validateForm on every name, email and mood within the bounds.
InitValidate ==
  /\ storeUser = NoItem
  /\ storeSaved = NoItem
  /\ clock = 0
  /\ InitPage("none", <<>>, storeUser, storeSaved)
  /\ event = Event("none", 0, "none")
  /\ call \in [fn : {"validateForm"},
               name : StringsUpTo({"A", Space}, MaxNameLen),
               email : StringsUpTo({"a", "@", ".", Space}, MaxEmailLen),
               mood : {<<>>, <<"chill">>}]
  /\ ret = NoRet

NextValidate == CallValidate

ValidateSpec == InitValidate /\ [][NextValidate]_vars

\* Storage as a page may find it: what the tool wrote, whole or cut short,
\* nothing, or short text from elsewhere.
Prefixes(t) == {SubSeq(t, 1, n) : n \in 0..Len(t)}
RawUserTexts ==
  Prefixes(JSONstringify(SampleUser(<<"chill">>)))
    \cup StringsUpTo({"[", "]", "x"}, MaxRawLen)
RawSavedTexts ==
  Prefixes(JSONstringify(Arr(<<SavedCopy(SONGS[2], 0), SavedCopy(SONGS[5], 1)>>)))
    \cup StringsUpTo({"[", "]", "x"}, MaxRawLen)

InitLoad ==
  /\ storeUser \in {NoItem} \cup {Item(t) : t \in RawUserTexts}
  /\ storeSaved \in {NoItem} \cup {Item(t) : t \in RawSavedTexts}
  /\ clock = 0
  /\ InitPage("none", <<>>, storeUser, storeSaved)
  /\ event = Event("none", 0, "none")
  /\ call \in [fn : {"loadFromStorage"}, key : {"mp_user", "mp_saved_songs"}]
  /\ ret = NoRet

NextLoad ==
  \/ CallLoad
  \/ OpenIndex
  \/ OpenSuggestions
  \/ OpenProfile

LoadSpec == InitLoad /\ [][NextLoad]_vars

\* ------------------------------------------------------------------ claims
\* The saved-songs list an item of storage holds (empty when it is absent),
\* and the persisted list.
SavedListOf(item) == loadFromStorage(item, Arr(<<>>)).val.v
SavedList == SavedListOf(storeSaved)

\* No two entries of a list carry the same id.
UniqueIds(list) ==
  \A i, j \in 1..Len(list) : i # j => SongId(list[i]) # SongId(list[j])

\* C1: in every reachable state the persisted saved list holds no two entries
\* with the same id; and once saveSong has handled a Save click, whether the
\* song was already saved or not, the list holds exactly one entry with the
\* song's id.
C1_UniqueSavedIds ==
  \E list \in {SavedList} :
    /\ UniqueIds(list)
    /\ (event.type = "save" /\ event.out \in {"saved", "duplicate"}) =>
         Cardinality({i \in 1..Len(list) : SongId(list[i]) = Num(event.arg)}) = 1

\* C1 witness: a Save click on a song that was already saved has been handled
\* (saveSong called again with the same id) and other songs are saved too.
C1_Witness ==
  /\ event.type = "save"
  /\ event.out = "duplicate"
  /\ Len(SavedList) >= 2

\* The list `old` without its k-th entry.
Without(old, k) == SubSeq(old, 1, k - 1) \o SubSeq(old, k + 1, Len(old))

\* C2: a Remove click on the Profile page for an id of the persisted list
\* leaves persisted exactly the old list without the entry of that id (every
\* other entry unchanged, in the same order), and the list shown after the
\* re-render is the new persisted list.
C2_RemoveExact ==
  [][event'.type = "remove" =>
       \E old \in {SavedList} : \E new \in {SavedListOf(storeSaved')} :
         \A i \in 1..Len(rendered) :
           RemoveClick(rendered[i]) =>
             /\ \E k \in 1..Len(old) :
                  /\ SongId(old[k]) = SongId(rendered[i])
                  /\ new = Without(old, k)
             /\ \A k \in 1..Len(new) : SongId(new[k]) # SongId(rendered[i])
             /\ rendered' = new]_vars

\* C2 witness: a Remove click has been handled and left other entries.
C2_Witness ==
  /\ event.type = "remove"
  /\ Len(rendered) >= 2
  /\ rendered = SavedList

\* C3: Prev and Next move currentIndex by -1 and +1 modulo the length of the
\* displayed (mood-filtered) list: from the unset state to 0, from the last
\* index of the displayed list to 0, from 0 back to its last index; the track
\* played is the displayed list's entry at that index.
C3_ChangeTrackWrapsDisplayed ==
  [][(event'.type \in {"prev", "next"} /\ (PrevClick \/ NextClick)) =>
       \E dir \in {IF event'.type = "next" THEN 1 ELSE -1} :
         /\ currentIndex' = IF currentIndex = -1 THEN 0
                            ELSE (currentIndex + dir + Len(chosen)) % Len(chosen)
         /\ audioSrc' = ToText(SongUrl(chosen[currentIndex' + 1]))]_vars

\* C4: on the Suggestions page, once a play action has set currentIndex, it
\* is a valid index into the displayed list, and the song playSongAtIndex
\* announced is one of the displayed songs.
C4_IndexWithinDisplayed ==
  (page = "suggestions" /\ currentIndex # -1) =>
    /\ 0 <= currentIndex
    /\ currentIndex < Len(chosen)
    /\ nowText.artist => \E i \in 1..Len(chosen) : IdOf(chosen[i]) = nowText.song

\* C5: a click on Play/Pause toggles between playing and paused when a track
\* is loaded, and when none is loaded it loads a track (source and Now
\* Playing text) and starts playing it.
C5_PlayPauseStateMachine ==
  [][(event'.type = "playPause" /\ PlayPauseClick) =>
       IF audioSrc # <<>>
       THEN /\ audioPaused' = ~audioPaused
            /\ audioSrc' = audioSrc
       ELSE /\ audioSrc' # <<>>
            /\ nowText' # NoText
            /\ ~audioPaused']_vars

\* The values the tool stores, and the text of each cut short.
StoredSamples ==
  {SampleUser(<<"chill">>), Arr(<<SavedCopy(SONGS[2], 0), SavedCopy(SONGS[5], 1)>>)}
CutShort(v) == Prefixes(JSONstringify(v)) \ {JSONstringify(v)}

\* C6: loadFromStorage never throws: it gives the fallback for a missing key
\* and for a stored text that was cut short, and the stored value for a
\* well-formed text; and no page's initialisation fails on what it loads.
C6_LoadNeverThrows ==
  /\ ret.fn = "loadFromStorage" =>
       \E item \in {ItemOf(call.key)} :
         /\ ~ret.threw
         /\ ~item.has => ret.val = FallbackOf(call.key)
         /\ \A v \in StoredSamples :
              /\ item = saveToStorage(v) => ret.val = v
              /\ (item.has /\ item.text \in CutShort(v)) => ret.val = FallbackOf(call.key)
  /\ page \in {"index", "suggestions", "profile"} => initPc # "threw"

\* The text s without its leading and trailing spaces, said by positions.
TrimmedText(s) ==
  IF \A i \in 1..Len(s) : s[i] = Space THEN <<>>
  ELSE LET first == CHOOSE i \in 1..Len(s) : s[i] # Space /\ \A j \in 1..(i - 1) : s[j] = Space
           last == CHOOSE i \in 1..Len(s) : s[i] # Space /\ \A j \in (i + 1)..Len(s) : s[j] = Space
       IN SubSeq(s, first, last)

\* The email shape of the specification: no space anywhere, an '@' with a
\* character before it, and later a '.' with a character between the two and
\* a character after it.
EmailShape(e) ==
  /\ \A i \in 1..Len(e) : e[i] # Space
  /\ \E i \in 2..Len(e) : \E j \in (i + 2)..(Len(e) - 1) : e[i] = "@" /\ e[j] = "."

\* C7: validateForm applies its rules in order, the first failure wins: a
\* name of fewer than 2 characters once trimmed gives the name message
\* whatever the email and mood; else an email that is empty or not of the
\* email shape gives the email message whatever the mood; else an empty mood
\* gives the mood message; else the result is ok.
C7_ValidateFirstFailureWins ==
  ret.fn = "validateForm" =>
    IF Len(TrimmedText(call.name)) < 2
    THEN ret.val = [ok |-> FALSE, message |-> NameMessage]
    ELSE IF call.email = <<>> \/ ~EmailShape(call.email)
    THEN ret.val = [ok |-> FALSE, message |-> EmailMessage]
    ELSE IF call.mood = <<>>
    THEN ret.val = [ok |-> FALSE, message |-> MoodMessage]
    ELSE ret.val.ok

\* C7 witness: validateForm has returned the name message for an input whose
\* email and mood are bad too.
C7_Witness ==
  /\ ret.fn = "validateForm"
  /\ ret.val.message = NameMessage
  /\ call.name = <<Space, "A", Space>>
  /\ ~EmailShape(call.email)
  /\ call.mood = <<>>

\* C8: while the tips fetch is pending every interaction of the Suggestions
\* page is in effect: a Save click leaves the song in the persisted list, a
\* Play, Prev or Next click starts playback, and the end of a track advances
\* as Next does.
C8_InteractionsWhileFetchPending ==
  [][(page = "suggestions" /\ initPc = "await") =>
       /\ event'.type = "save" =>
            \E list \in {SavedListOf(storeSaved')} :
              \E i \in 1..Len(list) : SongId(list[i]) = Num(event'.arg)
       /\ event'.type \in {"play", "prev", "next"} =>
            /\ audioSrc' # <<>>
            /\ ~audioPaused'
       /\ event'.type = "ended" =>
            /\ currentIndex' = NextIndex(currentIndex, 1)
            /\ audioSrc' = ToText(SongUrl(SONGS[currentIndex' + 1]))
            /\ ~audioPaused']_vars

\* C9: a submit whose trimmed name, email and mood fail validation changes
\* nothing (stored user, saved list, page, form); one that passes stores the
\* trimmed values as the user record, leaves the saved list alone and
\* navigates to the Suggestions page.
C9_SubmitAllOrNothing ==
  [][Submit =>
       \E n \in {TrimmedText(nameInput)} : \E e \in {TrimmedText(emailInput)} :
       \E m \in {moodSelect} : \E u \in {loadFromStorage(storeUser', Null)} :
          IF ~(Len(n) >= 2 /\ EmailShape(e) /\ m # <<>>)
          THEN UNCHANGED <<storeVars, clock, navVars, indexVars>>
          ELSE /\ storeUser'.has
               /\ ~u.threw
               /\ UserName(u.val) = Str(n)
               /\ UserEmail(u.val) = Str(e)
               /\ UserMood(u.val) = Str(m)
               /\ Len(u.val.v) = 4
               /\ storeSaved' = storeSaved
               /\ page' = "suggestions"]_vars

\* C9 witness: a submit has been rejected on a page that had a stored user
\* record to lose.
C9_Witness ==
  /\ page = "index"
  /\ event = Event("submit", 0, EmailMessage)
  /\ storeUser.has
  /\ nameInput = <<"B", "o">>

\* C10: whenever the Suggestions page has an audio source set, currentIndex
\* is the index in SONGS of the song with that url.
C10_IndexTracksSource ==
  (page = "suggestions" /\ audioSrc # <<>>) =>
    /\ currentIndex >= 0
    /\ audioSrc = ToText(SongUrl(SONGS[currentIndex + 1]))

====
